---- MODULE Spec2Model ----
(***************************************************************************)
(* A model of the EMT5 wrapper library (LiukerSun/EMT5, src/utils):        *)
(*   - MT5Connection (core/connection.py): initialize / shutdown / login   *)
(*   - require_connection (core/decorators.py)                             *)
(*   - MT5Executor (trade/executor.py), OrderRequestBuilder                *)
(*     (trade/request_builder.py), MT5Position (info/position.py)          *)
(*   - MT5AccountManager (manager/account_manager.py) and EMT5 (emt5.py)   *)
(* The external MetaTrader5 module is the environment: every call into it  *)
(* is recorded in extCalls and its answer is drawn from a small set.       *)
(***************************************************************************)
EXTENDS Integers, Sequences, FiniteSets, TLC

VARIABLES
    conn,           \* instance __dict__ of one MT5Connection
    initCall,       \* frame of the initialize() call in progress
    lastCall,       \* the most recently completed call and how it ended
    extCalls,       \* external functions invoked by the current / last call
    extArgs,        \* requests handed to order_send / order_check by that call
    retval,         \* the value the last call returned (a Python object)
    emt5,           \* the EMT5 client: _default_magic, keep_alive
    bld,            \* the OrderRequestBuilder under construction, if any
    accounts,       \* MT5AccountManager.accounts: alias -> client, in insertion order
    current_account,\* MT5AccountManager.current_account
    lock,           \* the thread holding MT5AccountManager._lock, or None
    pc,             \* per thread: the manager method it is executing
    terminal,       \* the session of the MetaTrader5 module of this process
    _instance,      \* MT5AccountManager._instance: None or an object of instances
    instances,      \* the MT5AccountManager objects created so far
    retryCall       \* the frame of a call of a function wrapped with retry

mgrVars == <<accounts, current_account, lock, pc, terminal>>

singletonVars == <<_instance, instances>>

vars == <<conn, initCall, lastCall, extCalls, extArgs, retval, emt5, bld,
          accounts, current_account, lock, pc, terminal, _instance, instances,
          retryCall>>

\* what the MT5Connection actions leave alone
notConnVars == <<retval, emt5, bld, mgrVars, singletonVars, retryCall>>

----------------------------------------------------------------------------
(* Values *)

None == "None"

\* error[0] tested in MT5Connection.initialize before launching the terminal
IPC_SEND_FAILED == -10001

\* retry counts tried by the callers of initialize (0 .. MaxRetry)
MaxRetry == 3

\* an error code other than IPC_SEND_FAILED that last_error() may report
ErrCodes == {IPC_SEND_FAILED, IPC_SEND_FAILED - 4}

Paths == {None, "terminal64.exe"}
Logins == {None, "L1", "L2"}
Servers == {None, "S1"}

\* the Python object None as a returned value
NoneValue == [kind |-> "None"]

\* EMT5.__init__(default_magic, keep_alive)
NewEMT5(default_magic, keep_alive) ==
    [_default_magic |-> default_magic, keep_alive |-> keep_alive]

\* no OrderRequestBuilder has been created yet
NoBuilder == [kind |-> "None"]

\* an Optional[int] / Optional[float] argument: None, or a number
NoNumber == <<>>
Number(n) == <<n>>

\* the threads of the process that use the manager
Threads == {"t1", "t2"}

\* a thread outside every manager method
Idle == [op |-> "idle"]

\* no session: before mt5.initialize succeeds and after mt5.shutdown
NoSession == [open |-> FALSE, login |-> None]

\* no wrapped function is being called
NoRetryCall ==
    [active |-> FALSE, max_attempts |-> 0, delay |-> 0, exceptions |-> {},
     attempt |-> 0, last_exception |-> None]

\* a reference to the i-th object of instances, and the reference None
Ref(i) == <<i>>
NoObject == <<>>

\* object.__new__(cls): an object without attributes (hasFields tells
\* whether accounts, current_account and _lock exist).  inits and lost are
\* history: how often __init__ has set the fields, and whether it has
\* replaced a table that held accounts
NewObject ==
    [_initialized |-> "unset", hasFields |-> FALSE, accounts |-> <<>>,
     current_account |-> None, inits |-> 0, lost |-> FALSE]

\* lines 35-38 of MT5AccountManager.__init__ on a new object
InitializedObject ==
    [_initialized |-> "True", hasFields |-> TRUE, accounts |-> <<>>,
     current_account |-> None, inits |-> 1, lost |-> FALSE]

\* MT5AccountManager() called once by one thread, in a process whose
\* MetaTrader5 module has no session yet; the fields of this instance are
\* followed in accounts, current_account and lock
NewManager ==
    /\ accounts = <<>>
    /\ current_account = None
    /\ lock = None
    /\ pc = [t \in Threads |-> Idle]
    /\ terminal = NoSession
    /\ _instance = Ref(1)
    /\ instances = <<InitializedObject>>

\* Python truthiness of an Optional[str]
Truthy(v) == v # None /\ v # ""

----------------------------------------------------------------------------
(* MT5Connection *)

\* MT5Connection.__init__
NewConnection == [connected |-> FALSE, login |-> None, server |-> None]

\* names defined on the class MT5Connection
MT5ConnectionMethods ==
    {"initialize", "shutdown", "is_connected", "get_terminal_info",
     "get_version", "login"}

\* obj.name : the instance __dict__ is searched before the (non-data
\* descriptor) functions of the class
GetAttr(obj, name) ==
    IF name \in DOMAIN obj
    THEN [kind |-> "value", name |-> name]
    ELSE IF name \in MT5ConnectionMethods
         THEN [kind |-> "method", name |-> name]
         ELSE [kind |-> "AttributeError", name |-> name]

\* MT5Connection.is_connected
is_connected(c) == c.connected

NoCall == [active |-> FALSE, path |-> None, login |-> None, server |-> None,
           retry |-> 0, attempt |-> 0, last_error |-> None]

\* what the environment answers during one attempt
InitEnvs ==
    {e \in [result : {"True", "False", "raise"}, error : ErrCodes,
            popen : {"ok", "raise"}] :
        \* last_error and Popen are only asked after a failed initialize, and
        \* Popen only for IPC_SEND_FAILED
        /\ e.result # "False" => (e.error = IPC_SEND_FAILED /\ e.popen = "ok")
        /\ e.error # IPC_SEND_FAILED => e.popen = "ok"}

\* LaunchCase without the test of the attempt number
LaunchCase_AnyAttempt(f, env) ==
    env.error = IPC_SEND_FAILED /\ Truthy(f.path)

\* the terminal is launched only in this case (connection.py line 71)
LaunchCase(f, env) ==
    env.error = IPC_SEND_FAILED /\ Truthy(f.path) /\ f.attempt = 0

\* the sleep between attempts (connection.py lines 95-96 and 104-105)
RetrySleep(f) == IF f.attempt < f.retry - 1 THEN <<"sleep">> ELSE <<>>

\* InitializeAttempt without the `return True` of line 87
InitializeAttempt_NoReturn(c, f, env) ==
    LET next == [f EXCEPT !.attempt = f.attempt + 1] IN
    IF env.result = "True"
    THEN [conn |-> [connected |-> TRUE, login |-> f.login, server |-> f.server],
          frame |-> next,
          calls |-> <<"initialize:True">>,
          returned |-> FALSE]
    ELSE [conn |-> [c EXCEPT !.connected = FALSE],
          frame |-> [next EXCEPT !.last_error = "tuple"],
          calls |-> <<"initialize:False", "last_error", "last_error">>
                    \o RetrySleep(f),
          returned |-> FALSE]

\* One iteration of `for attempt in range(retry)`: the body of the loop with
\* the environment answering env.  Gives the new instance dict, the new
\* frame, the external calls made and whether the call returned True.
InitializeAttempt(c, f, env) ==
    LET next == [f EXCEPT !.attempt = f.attempt + 1] IN
    CASE env.result = "raise" ->
            [conn |-> [c EXCEPT !.connected = FALSE],
             frame |-> [next EXCEPT !.last_error = "str"],
             calls |-> <<"initialize:raise">> \o RetrySleep(f),
             returned |-> FALSE]
      [] env.result = "True" ->
            [conn |-> [connected |-> TRUE, login |-> f.login, server |-> f.server],
             frame |-> [f EXCEPT !.active = FALSE],
             calls |-> <<"initialize:True">>,
             returned |-> TRUE]
      [] env.result = "False" /\ LaunchCase(f, env) /\ env.popen = "ok" ->
            \* subprocess.Popen, time.sleep(5), continue
            [conn |-> c,
             frame |-> next,
             calls |-> <<"initialize:False", "last_error", "Popen", "sleep">>,
             returned |-> FALSE]
      [] OTHER ->
            [conn |-> [c EXCEPT !.connected = FALSE],
             frame |-> [next EXCEPT !.last_error = "tuple"],
             calls |-> <<"initialize:False", "last_error">>
                       \o (IF LaunchCase(f, env) THEN <<"Popen:raise">> ELSE <<>>)
                       \o <<"last_error">> \o RetrySleep(f),
             returned |-> FALSE]

\* a call of initialize(path, login, password, server, retry=retry) starts
InitializeCall(path, login, server, retry) ==
    /\ ~initCall.active
    /\ initCall' = [active |-> TRUE, path |-> path, login |-> login,
                    server |-> server, retry |-> retry, attempt |-> 0,
                    last_error |-> None]
    /\ extCalls' = <<>>
    /\ extArgs' = <<>>
    /\ UNCHANGED <<conn, lastCall>>
    /\ UNCHANGED notConnVars

\* one pass through the loop body
InitializeLoop ==
    /\ initCall.active
    /\ initCall.attempt < initCall.retry
    /\ \E env \in InitEnvs :
         LET r == InitializeAttempt(conn, initCall, env) IN
         /\ conn' = r.conn
         /\ initCall' = r.frame
         /\ extCalls' = extCalls \o r.calls
         /\ extArgs' = Append(extArgs, [fn |-> "initialize",
                                        request |-> initCall.path,
                                        answer |-> env])
         /\ lastCall' = IF r.returned
                        THEN [op |-> "initialize", outcome |-> "return",
                              value |-> "True", args |-> <<>>]
                        ELSE lastCall
    /\ UNCHANGED notConnVars

\* the loop is over without a return: raise MT5ConnectionError
InitializeRaise ==
    /\ initCall.active
    /\ initCall.attempt >= initCall.retry
    /\ initCall' = [initCall EXCEPT !.active = FALSE]
    /\ lastCall' = [op |-> "initialize", outcome |-> "raise",
                    value |-> "MT5ConnectionError", args |-> <<>>]
    /\ UNCHANGED <<conn, extCalls, extArgs>>
    /\ UNCHANGED notConnVars

\* MT5Connection.shutdown: state after the call and the external calls made
ShutdownConn(c) == IF c.connected THEN [c EXCEPT !.connected = FALSE] ELSE c
ShutdownCalls(c) == IF c.connected THEN <<"shutdown">> ELSE <<>>

Shutdown ==
    /\ ~initCall.active
    /\ conn' = ShutdownConn(conn)
    /\ extCalls' = ShutdownCalls(conn)
    /\ lastCall' = [op |-> "shutdown", outcome |-> "return", value |-> "None",
                    args |-> <<>>]
    /\ extArgs' = <<>>
    /\ UNCHANGED initCall
    /\ UNCHANGED notConnVars

\* MT5Connection.login, the body of the method (connection.py lines 206-233)
LoginBody(c, login, server, env) ==
    IF ~c.connected
    THEN [conn |-> c, outcome |-> "raise", value |-> "MT5ConnectionError",
          calls |-> <<>>]
    ELSE CASE env = "True" ->
                [conn |-> [c EXCEPT !.login = login, !.server = server],
                 outcome |-> "return", value |-> "True",
                 calls |-> <<"login:True">>]
           [] env = "False" ->
                [conn |-> c, outcome |-> "return", value |-> "False",
                 calls |-> <<"login:False", "last_error">>]
           [] OTHER ->
                [conn |-> c, outcome |-> "return", value |-> "False",
                 calls |-> <<"login:raise">>]

\* the expression conn.login(login, password, server, timeout): the attribute
\* is looked up first, and what the instance __dict__ holds under "login"
\* (None or an account number, set by __init__ and initialize) is not callable
CallLogin(c, login, server, env) ==
    IF GetAttr(c, "login").kind = "method"
    THEN LoginBody(c, login, server, env)
    ELSE [conn |-> c, outcome |-> "raise",
          value |-> IF GetAttr(c, "login").kind = "value"
                    THEN "TypeError" ELSE "AttributeError",
          calls |-> <<>>]

\* MT5Connection.login / EMT5.login, which delegates to it
Login(login, server) ==
    /\ ~initCall.active
    /\ \E env \in {"True", "False", "raise"} :
         LET r == CallLogin(conn, login, server, env) IN
         /\ conn' = r.conn
         /\ extCalls' = r.calls
         /\ lastCall' = [op |-> "login", outcome |-> r.outcome, value |-> r.value,
                         args |-> <<login, server>>]
    /\ extArgs' = <<>>
    /\ UNCHANGED initCall
    /\ UNCHANGED notConnVars

InitConn ==
    /\ conn = NewConnection
    /\ initCall = NoCall
    /\ lastCall = [op |-> "__init__", outcome |-> "return", value |-> "None",
                   args |-> <<>>]
    /\ extCalls = <<>>
    /\ extArgs = <<>>
    /\ retval = NoneValue
    /\ emt5 = NewEMT5(0, FALSE)
    /\ bld = NoBuilder
    /\ NewManager
    /\ retryCall = NoRetryCall

NextConn ==
    \/ \E p \in Paths, l \in Logins, s \in Servers, n \in 0..MaxRetry :
         InitializeCall(p, l, s, n)
    \/ InitializeLoop
    \/ InitializeRaise
    \/ Shutdown
    \/ \E l \in Logins \ {None}, s \in Servers : Login(l, s)

SpecConn == InitConn /\ [][NextConn]_vars

\* the loop of initialize is not pre-empted: a call in progress goes on
SpecConnFair == SpecConn /\ WF_vars(InitializeLoop) /\ WF_vars(InitializeRaise)

----------------------------------------------------------------------------
(* Claims about MT5Connection *)

RECURSIVE Count(_, _)
\* how many entries of the call log are in the set names
Count(log, names) ==
    IF log = <<>> THEN 0
    ELSE (IF Head(log) \in names THEN 1 ELSE 0) + Count(Tail(log), names)

InitializeEntries == {"initialize:True", "initialize:False", "initialize:raise"}

\* C1 (as claimed): once initialize() or shutdown() has completed,
\* is_connected() is True if and only if that call was an initialize() that
\* returned True; in particular an initialize() that raised
\* MT5ConnectionError leaves is_connected() False.
C1_ConnectedIffLastInitializeTrue ==
    (~initCall.active /\ lastCall.op \in {"__init__", "initialize", "shutdown"})
        => (is_connected(conn)
              <=> (lastCall.op = "initialize" /\ lastCall.value = "True"))

\* the bookkeeping of one initialize(retry=n) call
InitializeLogOK ==
    /\ initCall.active =>
          /\ Count(extCalls, InitializeEntries) = initCall.attempt
          /\ initCall.attempt <= initCall.retry
          /\ Count(extCalls, {"initialize:True"}) = 0
    /\ (~initCall.active /\ lastCall.op = "initialize") =>
          /\ Count(extCalls, InitializeEntries) <= initCall.retry
          /\ lastCall.outcome = "return" =>
                /\ lastCall.value = "True"
                /\ Count(extCalls, {"initialize:True"}) = 1
                /\ extCalls[Len(extCalls)] = "initialize:True"
          /\ lastCall.outcome = "raise" =>
                /\ lastCall.value = "MT5ConnectionError"
                /\ Count(extCalls, {"initialize:True"}) = 0
                /\ Count(extCalls, InitializeEntries) = initCall.retry

\* C2: initialize(retry=n) terminates and calls the external initialize at
\* most n times; it returns True at the first attempt that succeeds and makes
\* no further attempt; if no attempt succeeds it raises MT5ConnectionError;
\* it never returns False or None.
C2_InitializeTerminatesBounded ==
    /\ []InitializeLogOK
    /\ (initCall.active ~> ~initCall.active)

\* an initialize(retry >= 2) that returned True after a failed attempt
C2_Witness ==
    /\ ~initCall.active
    /\ lastCall.op = "initialize"
    /\ lastCall.value = "True"
    /\ initCall.retry >= 2
    /\ Count(extCalls, InitializeEntries) >= 2

\* C4 (as claimed): login() raises MT5ConnectionError on a connection that is
\* not initialized; on an initialized one it returns True when the external
\* login succeeds, recording login and server, and False when the external
\* login fails or raises.
C4_LoginContract ==
    lastCall.op = "login" =>
        IF ~conn.connected
        THEN lastCall.outcome = "raise" /\ lastCall.value = "MT5ConnectionError"
        ELSE /\ lastCall.outcome = "return"
             /\ lastCall.value =
                   (IF extCalls # <<>> /\ Head(extCalls) = "login:True"
                    THEN "True" ELSE "False")
             /\ lastCall.value = "True" =>
                   (conn.login = lastCall.args[1] /\ conn.server = lastCall.args[2])

----------------------------------------------------------------------------
(* EMT5.initialize as one step (for the clients of the trade modules) *)

\* retry=3, the default of MT5Connection.initialize, which EMT5.initialize
\* does not override
DefaultRetry == 3

RECURSIVE RunInitialize(_, _, _, _)
\* the whole of MT5Connection.initialize: the loop over InitializeAttempt
\* with the environment answering envs[1], envs[2], ... and then the raise
RunInitialize(c, f, envs, log) ==
    IF f.attempt >= f.retry
    THEN [conn |-> c, outcome |-> "raise", value |-> "MT5ConnectionError",
          calls |-> log]
    ELSE LET r == InitializeAttempt(c, f, envs[f.attempt + 1]) IN
         IF r.returned
         THEN [conn |-> r.conn, outcome |-> "return", value |-> "True",
               calls |-> log \o r.calls]
         ELSE RunInitialize(r.conn, r.frame, envs, log \o r.calls)

\* EMT5.initialize(path, login, password, server) on the connection c
EMT5Initialize(c, path, login, server, envs) ==
    RunInitialize(c,
                  [active |-> TRUE, path |-> path, login |-> login,
                   server |-> server, retry |-> DefaultRetry, attempt |-> 0,
                   last_error |-> None],
                  envs, <<>>)

\* the calls of subprocess.Popen, returning or raising
Launches == {"Popen", "Popen:raise"}

\* C16: during one initialize() call the terminal is launched at most once,
\* and only on the first attempt, with a path given, after the external
\* initialize failed and last_error reported -10001
C16_LaunchAtMostOnce ==
    /\ Count(extCalls, Launches) <= 1
    /\ Count(extCalls, Launches) = 1 =>
          /\ Truthy(initCall.path)
          /\ Len(extCalls) >= 3
          /\ extCalls[1] = "initialize:False"
          /\ extCalls[2] = "last_error"
          /\ extCalls[3] \in Launches
          /\ extArgs[1].answer.result = "False"
          /\ extArgs[1].answer.error = IPC_SEND_FAILED

\* an initialize() with a path has launched the terminal on its first
\* attempt and not again on a later attempt that failed with -10001 too
C16_Witness ==
    /\ Count(extCalls, Launches) = 1
    /\ Len(extArgs) >= 2
    /\ extArgs[2].answer.result = "False"
    /\ extArgs[2].answer.error = IPC_SEND_FAILED
    /\ Truthy(initCall.path)

\* C17: an initialize() with retry >= 1 that launched the terminal calls the
\* external initialize again after the launch before it raises
C17_ReattemptAfterLaunch ==
    (/\ ~initCall.active
     /\ lastCall.op = "initialize"
     /\ lastCall.outcome = "raise"
     /\ initCall.retry >= 1
     /\ Count(extCalls, {"Popen"}) >= 1) =>
        \E i, j \in 1..Len(extCalls) :
            /\ i < j
            /\ extCalls[i] = "Popen"
            /\ extCalls[j] \in InitializeEntries

----------------------------------------------------------------------------
(* Values of the trade modules *)

\* mt5.TRADE_RETCODE_DONE (executor.py line 65: 10009 is "request completed")
TRADE_RETCODE_DONE == 10009

Symbols == {"EURUSD"}
Tickets == {101, 102}

\* the tolerance of the step test in MT5Executor._validate_volume, 1e-8 lot,
\* which is the unit volumes are counted in; prices are counted in points
VolumeTolerance == 1

Volumes == {1, 2, 3, 4, 6, 11}
Prices == {10, 11}

\* answers of mt5.symbol_info: None, raising, or a SymbolInfo with a bit mask
\* filling_mode and the volume limits
SymbolInfos ==
    {[kind |-> "None"], [kind |-> "raise"]} \cup
    {[kind |-> "namedtuple", filling_mode |-> fm, volume_min |-> 2,
      volume_max |-> 10, volume_step |-> st] : fm \in 0..3, st \in {0, 4}}

\* answers of mt5.symbol_info_tick
Ticks == {[kind |-> "None"], [kind |-> "namedtuple", bid |-> 10, ask |-> 11]}

\* answers of mt5.order_send / mt5.order_check for a request
SendAnswers(request) ==
    {[kind |-> "None"], [kind |-> "raise"]} \cup
    {[kind |-> "namedtuple", retcode |-> rc, comment |-> "c",
      request |-> [kind |-> "namedtuple", fields |-> request]] :
        rc \in {TRADE_RETCODE_DONE, TRADE_RETCODE_DONE - 3}}

\* answers of mt5.positions_get(ticket=t): None, an empty tuple, an exception
\* of the library, or one position
PositionAnswers(t) ==
    {[kind |-> "None", items |-> <<>>], [kind |-> "tuple", items |-> <<>>],
     [kind |-> "raise", items |-> <<>>]} \cup
    {[kind |-> "tuple",
      items |-> <<[kind |-> "namedtuple", ticket |-> t, symbol |-> "EURUSD",
                   type |-> ty, volume |-> 2, sl |-> 0, tp |-> 5, time |-> tm]>>] :
        ty \in {"POSITION_TYPE_BUY", "POSITION_TYPE_SELL"}, tm \in {0, 5}}

\* isinstance(request, dict)
IsDict(x) == x.kind = "dict"

\* how a decorated method ends
Return(value, obj, calls, args) ==
    [outcome |-> "return", value |-> value, retval |-> obj, calls |-> calls,
     args |-> args]
Raise(exc, calls, args) ==
    [outcome |-> "raise", value |-> exc, retval |-> NoneValue, calls |-> calls,
     args |-> args]

\* order_send(request) / order_check(request) and what the terminal answered
Sent(fn, request, answer) == [fn |-> fn, request |-> request, answer |-> answer]

\* a call made after others: the calls of both, in order
After(calls, r) == [r EXCEPT !.calls = calls \o r.calls]

----------------------------------------------------------------------------
(* core/decorators.py and core/converters.py *)

\* require_connection without the is_connected test
require_connection_NoTest(c, body) == body

\* @require_connection: the wrapper returns None unless the connection of
\* the object reports is_connected(); otherwise it runs the method
require_connection(c, body) ==
    IF ~is_connected(c) THEN Return("None", NoneValue, <<>>, <<>>) ELSE body

\* converters.to_dict
to_dict(obj) ==
    CASE obj.kind = "None" -> NoneValue
      [] obj.kind = "namedtuple" -> [obj EXCEPT !.kind = "dict"]
      [] obj.kind = "dict" -> obj
      [] OTHER -> NoneValue

\* the name f"{field}_dt"
DtName(field) ==
    CASE field = "time" -> "time_dt"
      [] field = "time_setup" -> "time_setup_dt"
      [] field = "time_expiration" -> "time_expiration_dt"
      [] field = "time_done" -> "time_done_dt"
      [] field = "time_update" -> "time_update_dt"

\* `field.endswith('_msc') or timestamp > 10000000000`: the timestamps of
\* the model are below 2^31, so only the name of the field decides
IsMilliseconds(field, ts) == field \in {"time_msc", "time_update_msc"}

\* datetime.fromtimestamp(timestamp, tz=utc), milliseconds scaled to seconds
FromTimestamp(field, ts) ==
    [kind |-> "datetime",
     seconds |-> IF IsMilliseconds(field, ts) THEN ts \div 1000 ELSE ts]

RECURSIVE add_datetime_fields(_, _)
\* converters.add_datetime_fields(data, time_fields)
add_datetime_fields(data, time_fields) ==
    IF time_fields = <<>> THEN data
    ELSE LET field == Head(time_fields)
             rest == add_datetime_fields(data, Tail(time_fields)) IN
         IF field \in DOMAIN data /\ data[field] > 0
         THEN (DtName(field) :> FromTimestamp(field, data[field])) @@ rest
         ELSE rest

\* one position of converters.convert_positions_to_dict
PositionToDict(position) ==
    add_datetime_fields([position EXCEPT !.kind = "dict"],
                        <<"time", "time_update">>)

\* converters.convert_positions_to_dict
convert_positions_to_dict(positions) ==
    [kind |-> "list",
     items |-> [i \in 1..Len(positions.items) |->
                   PositionToDict(positions.items[i])]]

----------------------------------------------------------------------------
(* MT5Executor *)

\* round(n / d) for n >= 0, d > 0: Python rounds halves to the even integer
RoundHalfEven(n, d) ==
    LET q == n \div d
        r == n % d IN
    IF 2 * r < d THEN q
    ELSE IF 2 * r > d THEN q + 1
    ELSE IF q % 2 = 0 THEN q ELSE q + 1

Abs(n) == IF n < 0 THEN -n ELSE n

\* _validate_volume without the test of the step
_validate_volume_NoStep(request, info) ==
    IF "symbol" \notin DOMAIN request \/ "volume" \notin DOMAIN request
    THEN [raised |-> FALSE, calls |-> <<>>]
    ELSE IF info.kind # "namedtuple"
    THEN [raised |-> FALSE, calls |-> <<"symbol_info">>]
    ELSE [raised |-> \/ request.volume < info.volume_min
                     \/ request.volume > info.volume_max,
          calls |-> <<"symbol_info">>]

\* MT5Executor._validate_volume: whether MT5ValidationError is raised, and
\* the external calls made
_validate_volume(request, info) ==
    IF "symbol" \notin DOMAIN request \/ "volume" \notin DOMAIN request
    THEN [raised |-> FALSE, calls |-> <<>>]
    ELSE IF info.kind # "namedtuple"
    THEN [raised |-> FALSE, calls |-> <<"symbol_info">>]
    ELSE LET volume == request.volume
             steps == RoundHalfEven(volume - info.volume_min, info.volume_step)
             expected_volume == info.volume_min + steps * info.volume_step IN
         [raised |-> \/ volume < info.volume_min
                     \/ volume > info.volume_max
                     \/ (info.volume_step > 0
                         /\ Abs(volume - expected_volume) > VolumeTolerance),
          calls |-> <<"symbol_info">>]

\* the result of order_send / order_check as a mapping (executor.py 93-97)
ResultDict(result) ==
    LET result_dict == to_dict(result) IN
    IF "request" \in DOMAIN result_dict /\ result_dict.request.kind = "namedtuple"
    THEN [result_dict EXCEPT !.request = [result_dict.request EXCEPT !.kind = "dict"]]
    ELSE result_dict

\* SendBody returning None when order_send gives no result
SendBody_ReturnsNone(request, answer) ==
    IF ~IsDict(request)
    THEN Raise("MT5ValidationError", <<>>, <<>>)
    ELSE IF answer.kind \in {"raise", "None"}
         THEN Return("None", NoneValue, <<"order_send">>,
                     <<Sent("order_send", request, answer)>>)
         ELSE Return("dict", ResultDict(answer), <<"order_send">>,
                     <<Sent("order_send", request, answer)>>)

\* MT5Executor.send without the decorator (executor.py 79-110)
SendBody(request, answer) ==
    IF ~IsDict(request)
    THEN Raise("MT5ValidationError", <<>>, <<>>)
    ELSE CASE answer.kind = "raise" ->
                Raise("MT5OrderError", <<"order_send">>,
                      <<Sent("order_send", request, answer)>>)
           [] answer.kind = "None" ->
                Raise("MT5OrderError", <<"order_send", "last_error">>,
                      <<Sent("order_send", request, answer)>>)
           [] OTHER ->
                Return("dict",
                       add_datetime_fields(ResultDict(answer),
                           <<"time", "time_setup", "time_expiration", "time_done">>),
                       <<"order_send">>,
                       <<Sent("order_send", request, answer)>>)

\* MT5Executor.check without the decorator (executor.py 137-165)
CheckBody(request, info, answer) ==
    IF ~IsDict(request)
    THEN Raise("MT5ValidationError", <<>>, <<>>)
    ELSE LET v == _validate_volume(request, info) IN
         IF v.raised
         THEN Raise("MT5ValidationError", v.calls, <<>>)
         ELSE After(v.calls,
                CASE answer.kind = "raise" ->
                       Raise("MT5OrderError", <<"order_check">>,
                             <<Sent("order_check", request, answer)>>)
                  [] answer.kind = "None" ->
                       Raise("MT5OrderError", <<"order_check", "last_error">>,
                             <<Sent("order_check", request, answer)>>)
                  [] OTHER ->
                       Return("dict", ResultDict(answer), <<"order_check">>,
                              <<Sent("order_check", request, answer)>>))

\* MT5Executor.send
send(c, request, answer) == require_connection(c, SendBody(request, answer))

\* MT5Executor.check
check(c, request, info, answer) ==
    require_connection(c, CheckBody(request, info, answer))

\* MT5Executor._get_filling_mode / OrderRequestBuilder._get_filling_mode
_get_filling_mode(info) ==
    IF info.kind = "None" THEN "ORDER_FILLING_IOC"
    ELSE IF info.filling_mode % 2 = 1 THEN "ORDER_FILLING_IOC"
    ELSE IF (info.filling_mode \div 2) % 2 = 1 THEN "ORDER_FILLING_FOK"
    ELSE "ORDER_FILLING_RETURN"

\* the request MT5Executor.modify builds (executor.py 195-201)
ModifyRequest(ticket, sl, tp, position) ==
    [kind |-> "dict", action |-> "TRADE_ACTION_SLTP", position |-> ticket,
     symbol |-> position.symbol,
     sl |-> IF sl # NoNumber THEN sl[1] ELSE position.sl,
     tp |-> IF tp # NoNumber THEN tp[1] ELSE position.tp]

\* MT5Executor.modify
modify(c, ticket, sl, tp, positions, answer) ==
    require_connection(c,
        IF positions.kind = "raise"
        THEN Raise("Exception", <<"positions_get">>, <<>>)
        ELSE IF positions.items = <<>>
        THEN Raise("MT5OrderError", <<"positions_get">>, <<>>)
        ELSE After(<<"positions_get">>,
                   send(c, ModifyRequest(ticket, sl, tp, positions.items[1]),
                        answer)))

\* the request MT5Executor.cancel builds (executor.py 219-222)
CancelRequest(ticket) ==
    [kind |-> "dict", action |-> "TRADE_ACTION_REMOVE", order |-> ticket]

\* MT5Executor.cancel
cancel(c, ticket, answer) ==
    require_connection(c, send(c, CancelRequest(ticket), answer))

\* the request MT5Executor.close_position builds (executor.py 266-289)
CloseRequest(ticket, volume, deviation, position, tick, info, default_magic) ==
    [kind |-> "dict", action |-> "TRADE_ACTION_DEAL", symbol |-> position.symbol,
     volume |-> IF volume = NoNumber THEN position.volume ELSE volume[1],
     type |-> IF position.type = "POSITION_TYPE_BUY"
              THEN "ORDER_TYPE_SELL" ELSE "ORDER_TYPE_BUY",
     position |-> ticket,
     price |-> IF position.type = "POSITION_TYPE_BUY" THEN tick.bid ELSE tick.ask,
     deviation |-> deviation, magic |-> default_magic,
     comment |-> "close position", type_time |-> "ORDER_TIME_GTC",
     type_filling |-> _get_filling_mode(info)]

\* MT5Executor.close_position; a symbol_info that raises escapes
\* _get_filling_mode as the exception of the library
close_position(c, ticket, volume, deviation, positions, tick, info, answer, default_magic) ==
    require_connection(c,
        IF positions.kind = "raise"
        THEN Raise("Exception", <<"positions_get">>, <<>>)
        ELSE IF positions.items = <<>>
        THEN Raise("MT5OrderError", <<"positions_get">>, <<>>)
        ELSE IF tick.kind = "None"
        THEN Raise("MT5OrderError", <<"positions_get", "symbol_info_tick">>, <<>>)
        ELSE IF info.kind = "raise"
        THEN Raise("Exception",
                   <<"positions_get", "symbol_info_tick", "symbol_info">>, <<>>)
        ELSE After(<<"positions_get", "symbol_info_tick", "symbol_info">>,
                   send(c, CloseRequest(ticket, volume, deviation,
                                        positions.items[1], tick, info,
                                        default_magic),
                        answer)))

----------------------------------------------------------------------------
(* MT5Position *)

\* answers of mt5.orders_get(ticket=t)
OrderAnswers(t) ==
    {[kind |-> "None", items |-> <<>>], [kind |-> "tuple", items |-> <<>>],
     [kind |-> "raise", items |-> <<>>]} \cup
    {[kind |-> "tuple",
      items |-> <<[kind |-> "namedtuple", ticket |-> t, symbol |-> "EURUSD",
                   time_setup |-> 5, time_expiration |-> 0, time_done |-> tm]>>] :
        tm \in {0, 5}}

\* answers of mt5.positions_total() / mt5.orders_total()
TotalAnswers == {NoNumber, Number(0), Number(2)}

\* converters.convert_orders_to_dict
convert_orders_to_dict(orders) ==
    [kind |-> "list",
     items |-> [i \in 1..Len(orders.items) |->
                   add_datetime_fields([orders.items[i] EXCEPT !.kind = "dict"],
                       <<"time_setup", "time_expiration", "time_done">>)]]

\* MT5Position.get_positions
get_positions(c, positions) ==
    require_connection(c,
        CASE positions.kind = "raise" ->
               Return("None", NoneValue, <<"positions_get">>, <<>>)
          [] positions.kind = "None" ->
               Return("list", [kind |-> "list", items |-> <<>>],
                      <<"positions_get">>, <<>>)
          [] OTHER ->
               Return("list", convert_positions_to_dict(positions),
                      <<"positions_get">>, <<>>))

\* MT5Position.get_orders
get_orders(c, orders) ==
    require_connection(c,
        CASE orders.kind = "raise" ->
               Return("None", NoneValue, <<"orders_get">>, <<>>)
          [] orders.kind = "None" ->
               Return("list", [kind |-> "list", items |-> <<>>],
                      <<"orders_get">>, <<>>)
          [] OTHER ->
               Return("list", convert_orders_to_dict(orders),
                      <<"orders_get">>, <<>>))

\* `positions[0] if positions and len(positions) > 0 else None`
FirstOrNone(r) ==
    IF r.retval.kind = "list" /\ Len(r.retval.items) > 0
    THEN Return("dict", r.retval.items[1], r.calls, <<>>)
    ELSE Return("None", NoneValue, r.calls, <<>>)

\* MT5Position.get_position_by_ticket
get_position_by_ticket(c, positions) ==
    require_connection(c, FirstOrNone(get_positions(c, positions)))

\* MT5Position.get_order_by_ticket
get_order_by_ticket(c, orders) ==
    require_connection(c, FirstOrNone(get_orders(c, orders)))

\* `total if total is not None else 0`
TotalOrZero(total) ==
    [kind |-> "int", n |-> IF total # NoNumber THEN total[1] ELSE 0]

\* MT5Position.get_positions_total
get_positions_total(c, total) ==
    require_connection(c,
        Return("int", TotalOrZero(total), <<"positions_total">>, <<>>))

\* MT5Position.get_orders_total
get_orders_total(c, total) ==
    require_connection(c,
        Return("int", TotalOrZero(total), <<"orders_total">>, <<>>))

----------------------------------------------------------------------------
(* A client used through its executor and its position module *)

\* what the executor / position actions leave alone
notExecVars == <<initCall, emt5, bld, mgrVars, singletonVars, retryCall>>

\* a method has completed with result r
Finish(op, args, r) ==
    /\ lastCall' = [op |-> op, outcome |-> r.outcome, value |-> r.value,
                    args |-> args]
    /\ extCalls' = r.calls
    /\ extArgs' = r.args
    /\ retval' = r.retval

\* default_magic values a client is constructed with
Magics == {0, 7}

\* a market request as a caller of MT5Executor would write it
MarketRequest(volume) ==
    [kind |-> "dict", action |-> "TRADE_ACTION_DEAL", symbol |-> "EURUSD",
     volume |-> volume, type |-> "ORDER_TYPE_BUY", price |-> 11, sl |-> 0,
     tp |-> 0, deviation |-> 20, magic |-> 0, comment |-> "",
     type_time |-> "ORDER_TIME_GTC", type_filling |-> "ORDER_FILLING_IOC"]

\* requests handed to MT5Executor.send / check: mappings and a non-mapping
ExecRequests ==
    {[kind |-> "list"]} \cup {MarketRequest(v) : v \in Volumes}
        \cup {CancelRequest(t) : t \in Tickets}

\* EMT5.initialize()
ClientInitialize ==
    /\ \E envs \in [1..DefaultRetry -> InitEnvs] :
         LET r == EMT5Initialize(conn, None, None, None, envs) IN
         /\ conn' = r.conn
         /\ lastCall' = [op |-> "initialize", outcome |-> r.outcome,
                         value |-> r.value, args |-> <<>>]
         /\ extCalls' = r.calls
    /\ extArgs' = <<>>
    /\ retval' = NoneValue
    /\ UNCHANGED notExecVars

\* EMT5.shutdown()
ClientShutdown ==
    /\ conn' = ShutdownConn(conn)
    /\ Finish("shutdown", <<>>,
              Return("None", NoneValue, ShutdownCalls(conn), <<>>))
    /\ UNCHANGED notExecVars

\* __exit__ that shuts down whatever keep_alive says
exit_IgnoresKeepAlive(client, c) ==
    [conn |-> ShutdownConn(c), calls |-> ShutdownCalls(c), value |-> "False"]

\* EMT5.__exit__ (emt5.py 212-221): the connection after it, the external
\* calls it makes and the value it returns
__exit__(client, c) ==
    IF ~client.keep_alive
    THEN [conn |-> ShutdownConn(c), calls |-> ShutdownCalls(c),
          value |-> "False"]
    ELSE [conn |-> c, calls |-> <<>>, value |-> "False"]

\* the with block is left, normally or by an exception
ClientExit ==
    /\ \E exc_type \in {None, "Exception"} :
         LET r == __exit__(emt5, conn) IN
         /\ conn' = r.conn
         /\ Finish("__exit__", <<exc_type>>,
                   Return(r.value, NoneValue, r.calls, <<>>))
    /\ UNCHANGED notExecVars

ExecSend ==
    /\ \E request \in ExecRequests :
         \E answer \in SendAnswers(request) :
            Finish("send", <<request>>, send(conn, request, answer))
    /\ UNCHANGED <<conn, notExecVars>>

ExecCheck ==
    /\ \E request \in ExecRequests, info \in SymbolInfos :
         \E answer \in SendAnswers(request) :
            Finish("check", <<request, info>>,
                   check(conn, request, info, answer))
    /\ UNCHANGED <<conn, notExecVars>>

ExecModify ==
    /\ \E ticket \in Tickets, sl \in {NoNumber, Number(3)},
          tp \in {NoNumber, Number(8)} :
         \E positions \in PositionAnswers(ticket) :
            \E answer \in SendAnswers(
                    IF positions.items = <<>> THEN [kind |-> "list"]
                    ELSE ModifyRequest(ticket, sl, tp, positions.items[1])) :
               Finish("modify", <<ticket>>,
                      modify(conn, ticket, sl, tp, positions, answer))
    /\ UNCHANGED <<conn, notExecVars>>

ExecCancel ==
    /\ \E ticket \in Tickets :
         \E answer \in SendAnswers(CancelRequest(ticket)) :
            Finish("cancel", <<ticket>>, cancel(conn, ticket, answer))
    /\ UNCHANGED <<conn, notExecVars>>

ExecClosePosition ==
    /\ \E ticket \in Tickets, volume \in {NoNumber, Number(2)},
          tick \in Ticks,
          info \in SymbolInfos :
         \E positions \in PositionAnswers(ticket) :
            \E answer \in SendAnswers(
                    IF positions.items = <<>> \/ tick.kind = "None"
                       \/ info.kind = "raise"
                    THEN [kind |-> "list"]
                    ELSE CloseRequest(ticket, volume, 20, positions.items[1],
                                      tick, info, emt5._default_magic)) :
               Finish("close_position", <<ticket>>,
                      close_position(conn, ticket, volume, 20, positions, tick,
                                     info, answer, emt5._default_magic))
    /\ UNCHANGED <<conn, notExecVars>>

PositionGetPositions ==
    /\ \E ticket \in Tickets : \E positions \in PositionAnswers(ticket) :
         Finish("get_positions", <<ticket>>, get_positions(conn, positions))
    /\ UNCHANGED <<conn, notExecVars>>

PositionGetPositionByTicket ==
    /\ \E ticket \in Tickets : \E positions \in PositionAnswers(ticket) :
         Finish("get_position_by_ticket", <<ticket>>,
                get_position_by_ticket(conn, positions))
    /\ UNCHANGED <<conn, notExecVars>>

PositionGetPositionsTotal ==
    /\ \E total \in TotalAnswers :
         Finish("get_positions_total", <<>>, get_positions_total(conn, total))
    /\ UNCHANGED <<conn, notExecVars>>

PositionGetOrders ==
    /\ \E ticket \in Tickets : \E orders \in OrderAnswers(ticket) :
         Finish("get_orders", <<ticket>>, get_orders(conn, orders))
    /\ UNCHANGED <<conn, notExecVars>>

PositionGetOrderByTicket ==
    /\ \E ticket \in Tickets : \E orders \in OrderAnswers(ticket) :
         Finish("get_order_by_ticket", <<ticket>>,
                get_order_by_ticket(conn, orders))
    /\ UNCHANGED <<conn, notExecVars>>

PositionGetOrdersTotal ==
    /\ \E total \in TotalAnswers :
         Finish("get_orders_total", <<>>, get_orders_total(conn, total))
    /\ UNCHANGED <<conn, notExecVars>>

\* EMT5(default_magic=m): a fresh client, not connected
InitExec ==
    /\ conn = NewConnection
    /\ initCall = NoCall
    /\ lastCall = [op |-> "__init__", outcome |-> "return", value |-> "None",
                   args |-> <<>>]
    /\ extCalls = <<>>
    /\ extArgs = <<>>
    /\ retval = NoneValue
    /\ emt5 \in {NewEMT5(m, k) : m \in Magics, k \in BOOLEAN}
    /\ bld = NoBuilder
    /\ NewManager
    /\ retryCall = NoRetryCall

NextExec ==
    \/ ClientInitialize
    \/ ClientShutdown
    \/ ClientExit
    \/ ExecSend
    \/ ExecCheck
    \/ ExecModify
    \/ ExecCancel
    \/ ExecClosePosition
    \/ PositionGetPositions
    \/ PositionGetPositionByTicket
    \/ PositionGetPositionsTotal
    \/ PositionGetOrders
    \/ PositionGetOrderByTicket
    \/ PositionGetOrdersTotal

SpecExec == InitExec /\ [][NextExec]_vars

----------------------------------------------------------------------------
(* Claims about the decorated methods of MT5Executor and MT5Position *)

\* the methods of the model that carry @require_connection
DecoratedOps ==
    {"send", "check", "modify", "cancel", "close_position", "get_positions",
     "get_position_by_ticket", "get_positions_total", "get_orders",
     "get_order_by_ticket", "get_orders_total"}

\* C3: a decorated MT5Executor / MT5Position method invoked while the
\* connection is disconnected returns None and calls no external function.
C3_DisconnectedReturnsNone ==
    (lastCall.op \in DecoratedOps /\ ~is_connected(conn)) =>
        /\ lastCall.outcome = "return"
        /\ lastCall.value = "None"
        /\ retval = NoneValue
        /\ extCalls = <<>>
        /\ extArgs = <<>>

\* close_position was called on a client that is not connected
C3_Witness ==
    /\ lastCall.op = "close_position"
    /\ ~is_connected(conn)

C15_ExitHonoursKeepAlive ==
    [][lastCall'.op = "__exit__" =>
         /\ lastCall'.outcome = "return"
         /\ lastCall'.value = "False"
         /\ emt5.keep_alive =>
              /\ Count(extCalls', {"shutdown"}) = 0
              /\ is_connected(conn') = is_connected(conn)
         /\ ~emt5.keep_alive =>
              /\ ~is_connected(conn')
              /\ Count(extCalls', {"shutdown"}) =
                    IF is_connected(conn) THEN 1 ELSE 0]_vars

\* a with block on a keep_alive client was left by an exception and the
\* client is still connected
C15_Witness ==
    /\ lastCall.op = "__exit__"
    /\ lastCall.args = <<"Exception">>
    /\ lastCall.value = "False"
    /\ emt5.keep_alive
    /\ is_connected(conn)

\* the last call was check on a connected client, with a mapping holding
\* symbol and volume, answered by symbol_info with a SymbolInfo
CheckWithVolume ==
    /\ lastCall.op = "check"
    /\ is_connected(conn)
    /\ IsDict(lastCall.args[1])
    /\ {"symbol", "volume"} \subseteq DOMAIN lastCall.args[1]
    /\ lastCall.args[2].kind = "namedtuple"

\* check has raised MT5ValidationError without asking order_check
CheckRejected ==
    /\ lastCall.outcome = "raise"
    /\ lastCall.value = "MT5ValidationError"
    /\ Count(extCalls, {"order_check"}) = 0

\* the distance of volume to the nearest volume_min + k * volume_step exceeds
\* tolerance
OffGrid(volume, info, tolerance) ==
    /\ info.volume_step > 0
    /\ \A k \in 0..info.volume_max :
         Abs(volume - (info.volume_min + k * info.volume_step)) > tolerance

\* C11 as stated: check raises MT5ValidationError without calling order_check
\* when the volume is below volume_min, above volume_max or (for a positive
\* step) not exactly volume_min + k * volume_step; otherwise order_check is
\* called exactly once
C11_VolumeExactlyOnGrid ==
    CheckWithVolume =>
        LET volume == lastCall.args[1].volume
            info == lastCall.args[2] IN
        IF \/ volume < info.volume_min
           \/ volume > info.volume_max
           \/ OffGrid(volume, info, 0)
        THEN CheckRejected
        ELSE Count(extCalls, {"order_check"}) = 1

\* C11 (amended): check raises MT5ValidationError without calling order_check
\* when the volume is below volume_min, above volume_max or (for a positive
\* step) further than the tolerance 1e-8 from every volume_min + k *
\* volume_step; otherwise order_check is called exactly once
C11_VolumeWithinTolerance ==
    CheckWithVolume =>
        LET volume == lastCall.args[1].volume
            info == lastCall.args[2] IN
        IF \/ volume < info.volume_min
           \/ volume > info.volume_max
           \/ OffGrid(volume, info, VolumeTolerance)
        THEN CheckRejected
        ELSE /\ Count(extCalls, {"order_check"}) = 1
             /\ ~(lastCall.outcome = "raise"
                  /\ lastCall.value = "MT5ValidationError")

\* check has rejected a volume inside the range for its distance to the grid
C11_Witness ==
    /\ CheckWithVolume
    /\ lastCall.args[1].volume > lastCall.args[2].volume_min
    /\ lastCall.args[1].volume < lastCall.args[2].volume_max
    /\ CheckRejected

----------------------------------------------------------------------------
(* OrderRequestBuilder *)

\* OrderRequestBuilder.__init__(symbol, connection, executor, default_magic);
\* orderTypeCalled, chain and written are history, not attributes: whether an
\* order-type method has been called on this builder, and how many
\* order-type and with_* calls the chain has so far
NewBuilder(symbol, default_magic) ==
    [kind |-> "builder", _symbol |-> symbol, _default_magic |-> default_magic,
     _action |-> None, _order_type |-> None, _volume |-> 0, _price |-> 0,
     _sl |-> 0, _tp |-> 0, _deviation |-> 20, _magic |-> default_magic,
     _comment |-> "", _position |-> 0, orderTypeCalled |-> FALSE, chain |-> 0,
     written |-> [sl |-> <<>>, tp |-> <<>>, deviation |-> <<>>,
                  magic |-> <<>>, comment |-> <<>>]]

\* how a builder method ends: the builder after it, and the calls it made
BReturn(b, calls) ==
    [bld |-> b, outcome |-> "return", value |-> "self", calls |-> calls]
BRaise(b, exc, calls) ==
    [bld |-> b, outcome |-> "raise", value |-> exc, calls |-> calls]

\* OrderRequestBuilder.market_buy: the price is asked for after the first
\* three assignments, and _get_ask_price raises ValueError without a tick
market_buy(b, volume, tick) ==
    LET b1 == [b EXCEPT !._action = "TRADE_ACTION_DEAL",
                        !._order_type = "ORDER_TYPE_BUY",
                        !._volume = volume,
                        !.orderTypeCalled = TRUE] IN
    IF tick.kind = "None"
    THEN BRaise(b1, "ValueError", <<"symbol_info_tick">>)
    ELSE BReturn([b1 EXCEPT !._price = tick.ask], <<"symbol_info_tick">>)

\* OrderRequestBuilder.market_sell
market_sell(b, volume, position, tick) ==
    LET b1 == [b EXCEPT !._action = "TRADE_ACTION_DEAL",
                        !._order_type = "ORDER_TYPE_SELL",
                        !._volume = volume,
                        !.orderTypeCalled = TRUE] IN
    IF tick.kind = "None"
    THEN BRaise(b1, "ValueError", <<"symbol_info_tick">>)
    ELSE BReturn([b1 EXCEPT !._price = tick.bid, !._position = position],
                 <<"symbol_info_tick">>)

\* the order types of limit_buy, limit_sell, stop_buy, stop_sell
PendingTypes ==
    [limit_buy |-> "ORDER_TYPE_BUY_LIMIT", limit_sell |-> "ORDER_TYPE_SELL_LIMIT",
     stop_buy |-> "ORDER_TYPE_BUY_STOP", stop_sell |-> "ORDER_TYPE_SELL_STOP"]

\* OrderRequestBuilder.limit_buy / limit_sell / stop_buy / stop_sell
pending(b, method, volume, price) ==
    BReturn([b EXCEPT !._action = "TRADE_ACTION_PENDING",
                      !._order_type = PendingTypes[method],
                      !._volume = volume,
                      !._price = price,
                      !.orderTypeCalled = TRUE], <<>>)

\* OrderRequestBuilder.with_sl ... with_comment
with_sl(b, sl) == BReturn([b EXCEPT !._sl = sl], <<>>)
with_tp(b, tp) == BReturn([b EXCEPT !._tp = tp], <<>>)
\* with_sl_tp that keeps the take-profit it found
with_sl_tp_SlOnly(b, sl, tp) == BReturn([b EXCEPT !._sl = sl], <<>>)

with_sl_tp(b, sl, tp) == BReturn([b EXCEPT !._sl = sl, !._tp = tp], <<>>)
with_deviation(b, deviation) == BReturn([b EXCEPT !._deviation = deviation], <<>>)
with_magic(b, magic) == BReturn([b EXCEPT !._magic = magic], <<>>)
with_comment(b, comment) == BReturn([b EXCEPT !._comment = comment], <<>>)

\* the request dictionary of build (request_builder.py 298-315)
BuildRequest(b, filling_mode) ==
    LET request ==
          [kind |-> "dict", action |-> b._action, symbol |-> b._symbol,
           volume |-> b._volume, type |-> b._order_type, price |-> b._price,
           sl |-> b._sl, tp |-> b._tp, deviation |-> b._deviation,
           magic |-> b._magic, comment |-> b._comment,
           type_time |-> "ORDER_TIME_GTC", type_filling |-> filling_mode] IN
    IF b._position > 0 THEN ("position" :> b._position) @@ request ELSE request

\* build without the test of lines 293-294
build_NoTest(b, info) ==
    IF info.kind = "raise"
    THEN Raise("Exception", <<"symbol_info">>, <<>>)
    ELSE Return("dict", BuildRequest(b, _get_filling_mode(info)),
                <<"symbol_info">>, <<>>)

\* OrderRequestBuilder.build
build(b, info) ==
    IF b._action = None \/ b._order_type = None
    THEN Raise("ValueError", <<>>, <<>>)
    ELSE IF info.kind = "raise"
    THEN Raise("Exception", <<"symbol_info">>, <<>>)
    ELSE Return("dict", BuildRequest(b, _get_filling_mode(info)),
                <<"symbol_info">>, <<>>)

\* OrderRequestBuilder.send calling the executor before build
builder_send_Eager(b, c, info, answer) ==
    LET sr == After(<<"MT5Executor.send">>,
                    send(c, BuildRequest(b, "ORDER_FILLING_IOC"), answer))
        br == build(b, info) IN
    IF br.outcome = "raise" THEN After(sr.calls, br) ELSE sr

\* OrderRequestBuilder.send: build, then MT5Executor.send(request)
builder_send(b, c, info, answer) ==
    LET br == build(b, info) IN
    IF br.outcome = "raise" THEN br
    ELSE After(br.calls \o <<"MT5Executor.send">>, send(c, br.retval, answer))

\* OrderRequestBuilder.check: build, then MT5Executor.check(request); info2
\* is what symbol_info answers to the executor's volume check
builder_check(b, c, info, info2, answer) ==
    LET br == build(b, info) IN
    IF br.outcome = "raise" THEN br
    ELSE After(br.calls \o <<"MT5Executor.check">>,
               check(c, br.retval, info2, answer))

----------------------------------------------------------------------------
(* A client used through EMT5.order(symbol) *)

\* what the builder methods leave alone
notBuilderVars == <<conn, initCall, emt5, mgrVars, singletonVars, retryCall>>

\* the longest chain of order-type and with_* calls on one builder
MaxChain == 3

\* arguments the callers pass, and the answers symbol_info gives to a chain
BuilderVolumes == {2, 11}
BuilderInfos ==
    {i \in SymbolInfos :
        i.kind = "namedtuple" => (i.filling_mode = 2 /\ i.volume_step = 4)}
OrderMethods ==
    {"market_buy", "market_sell", "limit_buy", "limit_sell", "stop_buy", "stop_sell"}
WithMethods ==
    {"with_sl", "with_tp", "with_sl_tp", "with_deviation", "with_magic",
     "with_comment"}

\* the arguments the with_* calls of the chain were last given
Written(op, args, w) ==
    CASE op = "with_sl" -> [w EXCEPT !.sl = <<args[1]>>]
      [] op = "with_tp" -> [w EXCEPT !.tp = <<args[1]>>]
      [] op = "with_sl_tp" -> [w EXCEPT !.sl = <<args[1]>>, !.tp = <<args[2]>>]
      [] op = "with_deviation" -> [w EXCEPT !.deviation = <<args[1]>>]
      [] op = "with_magic" -> [w EXCEPT !.magic = <<args[1]>>]
      [] op = "with_comment" -> [w EXCEPT !.comment = <<args[1]>>]
      [] OTHER -> w

\* a builder method called with args has completed with result r
BuilderFinish(op, args, r) ==
    /\ bld' = [r.bld EXCEPT !.chain = bld.chain + 1,
                            !.written = Written(op, args, bld.written)]
    /\ lastCall' = [op |-> op, outcome |-> r.outcome, value |-> r.value,
                    args |-> args]
    /\ extCalls' = r.calls
    /\ extArgs' = <<>>
    /\ retval' = NoneValue
    /\ UNCHANGED notBuilderVars

\* EMT5.order(symbol)
Order ==
    /\ \E symbol \in Symbols :
         /\ bld' = NewBuilder(symbol, emt5._default_magic)
         /\ lastCall' = [op |-> "order", outcome |-> "return",
                         value |-> "builder", args |-> <<>>]
    /\ extCalls' = <<>>
    /\ extArgs' = <<>>
    /\ retval' = NoneValue
    /\ UNCHANGED notBuilderVars

MarketBuy ==
    /\ bld.kind = "builder" /\ bld.chain < MaxChain
    /\ \E volume \in BuilderVolumes, tick \in Ticks :
         BuilderFinish("market_buy", <<>>, market_buy(bld, volume, tick))

MarketSell ==
    /\ bld.kind = "builder" /\ bld.chain < MaxChain
    /\ \E volume \in BuilderVolumes, position \in {0, 101}, tick \in Ticks :
         BuilderFinish("market_sell", <<>>, market_sell(bld, volume, position, tick))

Pending ==
    /\ bld.kind = "builder" /\ bld.chain < MaxChain
    /\ \E method \in DOMAIN PendingTypes, volume \in BuilderVolumes :
         BuilderFinish(method, <<>>, pending(bld, method, volume, 10))

WithSl ==
    /\ bld.kind = "builder" /\ bld.chain < MaxChain
    /\ BuilderFinish("with_sl", <<3>>, with_sl(bld, 3))

WithTp ==
    /\ bld.kind = "builder" /\ bld.chain < MaxChain
    /\ BuilderFinish("with_tp", <<8>>, with_tp(bld, 8))

WithSlTp ==
    /\ bld.kind = "builder" /\ bld.chain < MaxChain
    /\ BuilderFinish("with_sl_tp", <<4, 9>>, with_sl_tp(bld, 4, 9))

WithDeviation ==
    /\ bld.kind = "builder" /\ bld.chain < MaxChain
    /\ \E deviation \in {30, 40} :
         BuilderFinish("with_deviation", <<deviation>>,
                       with_deviation(bld, deviation))

WithMagic ==
    /\ bld.kind = "builder" /\ bld.chain < MaxChain
    /\ \E magic \in {0, 9} :
         BuilderFinish("with_magic", <<magic>>, with_magic(bld, magic))

WithComment ==
    /\ bld.kind = "builder" /\ bld.chain < MaxChain
    /\ BuilderFinish("with_comment", <<"note">>, with_comment(bld, "note"))

\* a terminal method has completed with result r: the builder is as before
TerminalFinish(op, args, r) ==
    /\ Finish(op, args, r)
    /\ UNCHANGED bld
    /\ UNCHANGED notBuilderVars

Build ==
    /\ bld.kind = "builder"
    /\ \E info \in BuilderInfos : TerminalFinish("build", <<info>>, build(bld, info))

BuilderSend ==
    /\ bld.kind = "builder"
    /\ \E info \in BuilderInfos :
         \E answer \in SendAnswers(BuildRequest(bld, _get_filling_mode(
                          IF info.kind = "raise" THEN [kind |-> "None"] ELSE info))) :
            TerminalFinish("builder.send", <<>>, builder_send(bld, conn, info, answer))

BuilderCheck ==
    /\ bld.kind = "builder"
    /\ \E info \in BuilderInfos, info2 \in BuilderInfos :
         \E answer \in SendAnswers(BuildRequest(bld, _get_filling_mode(
                          IF info.kind = "raise" THEN [kind |-> "None"] ELSE info))) :
            TerminalFinish("builder.check", <<>>,
                           builder_check(bld, conn, info, info2, answer))

\* the client connects / disconnects between the calls of a chain
BuilderClientInitialize ==
    /\ \E e \in InitEnvs :
         \* the terminal answers every attempt of this call alike
         LET r == EMT5Initialize(conn, None, None, None,
                                 [i \in 1..DefaultRetry |-> e]) IN
         /\ conn' = r.conn
         /\ lastCall' = [op |-> "initialize", outcome |-> r.outcome,
                         value |-> r.value, args |-> <<>>]
    /\ extCalls' = <<>>
    /\ extArgs' = <<>>
    /\ retval' = NoneValue
    /\ UNCHANGED <<initCall, emt5, bld, mgrVars, singletonVars, retryCall>>

BuilderClientShutdown ==
    /\ conn' = ShutdownConn(conn)
    /\ Finish("shutdown", <<>>,
              Return("None", NoneValue, ShutdownCalls(conn), <<>>))
    /\ UNCHANGED <<initCall, emt5, bld, mgrVars, singletonVars, retryCall>>

\* EMT5(default_magic=7): a fresh client, not connected, no builder yet
InitBuilder ==
    /\ conn = NewConnection
    /\ initCall = NoCall
    /\ lastCall = [op |-> "__init__", outcome |-> "return", value |-> "None",
                   args |-> <<>>]
    /\ extCalls = <<>>
    /\ extArgs = <<>>
    /\ retval = NoneValue
    /\ emt5 = NewEMT5(7, FALSE)
    /\ bld = NoBuilder
    /\ NewManager
    /\ retryCall = NoRetryCall

NextBuilder ==
    \/ BuilderClientInitialize
    \/ BuilderClientShutdown
    \/ Order
    \/ MarketBuy
    \/ MarketSell
    \/ Pending
    \/ WithSl
    \/ WithTp
    \/ WithSlTp
    \/ WithDeviation
    \/ WithMagic
    \/ WithComment
    \/ Build
    \/ BuilderSend
    \/ BuilderCheck

SpecBuilder == InitBuilder /\ [][NextBuilder]_vars

----------------------------------------------------------------------------
(* Claims about OrderRequestBuilder *)

\* entries of the call log that show the executor at work
ExecutorEntries ==
    {"MT5Executor.send", "MT5Executor.check", "order_send", "order_check"}

\* build() can return this request for some answer of symbol_info
IsBuiltRequest(request) ==
    \E info \in SymbolInfos :
        /\ build(bld, info).outcome = "return"
        /\ build(bld, info).retval = request

\* the non-terminal methods never reach the executor
NonTerminalsDefer ==
    lastCall.op \in OrderMethods \cup WithMethods \cup {"order", "build"} =>
        (Count(extCalls, ExecutorEntries) = 0 /\ extArgs = <<>>)

\* C8 (as claimed): order-type methods, with_* methods and build() never
\* invoke the executor; each send() on a connected client invokes the
\* external order_send exactly once with the built request; each check()
\* invokes order_check and never order_send.
C8_EachTerminalSubmits ==
    /\ NonTerminalsDefer
    /\ (lastCall.op = "builder.send" /\ is_connected(conn)) =>
          /\ Count(extCalls, {"order_send"}) = 1
          /\ Len(extArgs) = 1 /\ IsBuiltRequest(extArgs[1].request)
    /\ (lastCall.op = "builder.check" /\ is_connected(conn)) =>
          /\ Count(extCalls, {"order_check"}) = 1
          /\ Count(extCalls, {"order_send"}) = 0

\* how a terminal method ends when build() raised: ValueError without an
\* order type, or the exception of symbol_info
BuildFailed ==
    lastCall.outcome = "raise" /\ lastCall.value \in {"ValueError", "Exception"}

\* C8 (amended): order-type methods, with_* methods and build() never invoke
\* the executor; a send() on a connected client invokes order_send exactly
\* once, with the built request, when build() returns a request, and not at
\* all when build() raises; a check() never invokes order_send, and on a
\* connected client invokes order_check exactly once, with the built request,
\* unless build() raises or the volume pre-check of the executor raises
\* MT5ValidationError, and then not at all.
C8_DeferredSubmission ==
    /\ NonTerminalsDefer
    /\ (lastCall.op = "builder.send" /\ is_connected(conn)) =>
          /\ Count(extCalls, {"order_check"}) = 0
          /\ ~bld.orderTypeCalled => BuildFailed
          /\ IF BuildFailed
             THEN Count(extCalls, ExecutorEntries) = 0 /\ extArgs = <<>>
             ELSE /\ Count(extCalls, {"order_send"}) = 1
                  /\ Len(extArgs) = 1
                  /\ extArgs[1].fn = "order_send"
                  /\ IsBuiltRequest(extArgs[1].request)
    /\ lastCall.op = "builder.check" =>
          /\ Count(extCalls, {"order_send"}) = 0
          /\ is_connected(conn) =>
                IF BuildFailed
                THEN Count(extCalls, ExecutorEntries) = 0 /\ extArgs = <<>>
                ELSE IF lastCall.outcome = "raise"
                        /\ lastCall.value = "MT5ValidationError"
                THEN Count(extCalls, {"order_check"}) = 0 /\ extArgs = <<>>
                ELSE /\ Count(extCalls, {"order_check"}) = 1
                     /\ Len(extArgs) = 1
                     /\ extArgs[1].fn = "order_check"
                     /\ IsBuiltRequest(extArgs[1].request)

\* a chain order-type, with_*, send() on a connected client reached order_send
C8_Witness ==
    /\ lastCall.op = "builder.send"
    /\ is_connected(conn)
    /\ bld.chain >= 2
    /\ bld._sl # 0
    /\ Count(extCalls, {"order_send"}) = 1

\* C9: without an order-type method, build(), send() and check() raise
\* ValueError and the executor (hence order_send / order_check) is not
\* invoked, however many with_* methods were called before.
C9_NoOrderTypeRaisesValueError ==
    (lastCall.op \in {"build", "builder.send", "builder.check"}
        /\ ~bld.orderTypeCalled) =>
        /\ lastCall.outcome = "raise"
        /\ lastCall.value = "ValueError"
        /\ extCalls = <<>>
        /\ extArgs = <<>>

\* send() after two with_* calls and no order-type call, client connected
C9_Witness ==
    /\ lastCall.op = "builder.send"
    /\ ~bld.orderTypeCalled
    /\ bld.chain >= 2
    /\ is_connected(conn)

\* the attributes an OrderRequestBuilder holds for the request
RequestAttributes ==
    {"_symbol", "_default_magic", "_action", "_order_type", "_volume",
     "_price", "_sl", "_tp", "_deviation", "_magic", "_comment", "_position"}

\* the attributes a with_* method is named after
OwnAttributes(op) ==
    CASE op = "with_sl" -> {"_sl"}
      [] op = "with_tp" -> {"_tp"}
      [] op = "with_sl_tp" -> {"_sl", "_tp"}
      [] op = "with_deviation" -> {"_deviation"}
      [] op = "with_magic" -> {"_magic"}
      [] op = "with_comment" -> {"_comment"}

\* the argument last written, or the default
Latest(w, default) == IF w = <<>> THEN default ELSE w[1]

\* build() returns the arguments of the most recent with_* calls, or the
\* defaults
BuildReturnsLatest ==
    (lastCall.op = "build" /\ lastCall.outcome = "return") =>
        /\ retval.sl = Latest(bld.written.sl, 0)
        /\ retval.tp = Latest(bld.written.tp, 0)
        /\ retval.deviation = Latest(bld.written.deviation, 20)
        /\ retval.magic = Latest(bld.written.magic, emt5._default_magic)
        /\ retval.comment = Latest(bld.written.comment, "")

\* a with_* call returns the builder and changes only its own attributes;
\* build changes no attribute, and a second build with the same symbol info
\* returns an equal request
BuilderFrame ==
    /\ lastCall'.op \in WithMethods =>
          /\ lastCall'.outcome = "return"
          /\ lastCall'.value = "self"
          /\ \A f \in RequestAttributes \ OwnAttributes(lastCall'.op) :
                bld'[f] = bld[f]
    /\ lastCall'.op = "build" => bld' = bld
    /\ (/\ lastCall.op = "build" /\ lastCall'.op = "build"
        /\ lastCall.outcome = "return"
        /\ lastCall'.args = lastCall.args) =>
          (lastCall'.outcome = "return" /\ retval' = retval)

\* C12: the builder accumulates fields with last-write-wins; build() returns
\* for sl, tp, deviation, magic and comment the argument of the most recent
\* corresponding with_* call or the default; each with_* call changes only
\* its own fields and returns the builder; build() changes no builder field
\* and two consecutive build() calls under the same symbol info are equal
C12_LastWriteWins == []BuildReturnsLatest /\ [][BuilderFrame]_vars

\* build() has returned after with_sl_tp(4, 9) and a later with_tp(8)
C12_Witness ==
    /\ lastCall.op = "build"
    /\ lastCall.outcome = "return"
    /\ bld.written.sl = <<4>>
    /\ bld.written.tp = <<8>>
    /\ retval.sl = 4
    /\ retval.tp = 8

\* the methods of OrderRequestBuilder as the call record names them
BuilderOps ==
    OrderMethods \cup WithMethods \cup {"build", "builder.send", "builder.check"}

\* entries of the call log that are functions of the MetaTrader5 module
TerminalEntries ==
    {"symbol_info_tick", "symbol_info", "order_send", "order_check",
     "last_error"}

\* C19 (as claimed): on a client whose connection is disconnected no
\* OrderRequestBuilder method (market_buy, market_sell, limit_* / stop_*,
\* with_*, build, send, check) invokes an external terminal function.
C19_DisconnectedBuilderCallsNothing ==
    (lastCall.op \in BuilderOps /\ ~is_connected(conn)) =>
        Count(extCalls, TerminalEntries) = 0

----------------------------------------------------------------------------
(* MT5AccountManager (manager/account_manager.py)

   accounts is the dict self.accounts as the sequence of its items in
   insertion order; an item is [name, client] with client the state of the
   EMT5 object's MT5Connection.  The MetaTrader5 module is imported once per
   process and its initialize() and shutdown() take no handle
   (connection.py lines 51-67 and 116), so every client of the process talks
   to the one session recorded in terminal. *)

Names == {"a", "b"}

Keys(accts) == {accts[i].name : i \in 1..Len(accts)}

\* self.accounts[name]
Lookup(accts, name) ==
    LET i == CHOOSE j \in 1..Len(accts) : accts[j].name = name IN accts[i].client

\* del self.accounts[name]
Delete(accts, name) == SelectSeq(accts, LAMBDA e : e.name # name)

\* what mt5.initialize / mt5.shutdown made by one client do to the session
\* of the process
SessionAfterInitialize(term, r, login) ==
    IF r.outcome = "return" THEN [open |-> TRUE, login |-> login] ELSE term

SessionAfterShutdown(term, client) ==
    IF is_connected(client) THEN NoSession ELSE term

\* the environment answers every attempt of one initialize call alike
SameAnswer(env) == [i \in 1..DefaultRetry |-> env]

\* add_account that stores the client before connecting it
add_account_StoreFirst(accts, current, term, name, login, server, auto_connect, env) ==
    LET r == IF auto_connect
             THEN EMT5Initialize(NewConnection, None, login, server,
                                 SameAnswer(env))
             ELSE [conn |-> NewConnection, outcome |-> "return",
                   value |-> "True", calls |-> <<>>]
    IN  [accounts |-> Append(Delete(accts, name),
                             [name |-> name, client |-> r.conn]),
         current_account |-> IF current = None THEN name ELSE current,
         terminal |-> SessionAfterInitialize(term, r, login),
         value |-> IF name \in Keys(accts) \/ r.outcome # "return"
                   THEN "False" ELSE "True",
         calls |-> <<"EMT5()">> \o r.calls]

\* the body of add_account (lines 67-91), path left at its default
add_account(accts, current, term, name, login, server, auto_connect, env) ==
    IF name \in Keys(accts)
    THEN [accounts |-> accts, current_account |-> current, terminal |-> term,
          value |-> "False", calls |-> <<>>]
    ELSE LET r == IF auto_connect
                  THEN EMT5Initialize(NewConnection, None, login, server,
                                      SameAnswer(env))
                  ELSE [conn |-> NewConnection, outcome |-> "return",
                        value |-> "True", calls |-> <<>>]
         IN  IF auto_connect /\ (r.outcome = "raise" \/ r.value # "True")
             THEN [accounts |-> accts, current_account |-> current,
                   terminal |-> SessionAfterInitialize(term, r, login),
                   value |-> "False", calls |-> <<"EMT5()">> \o r.calls]
             ELSE [accounts |-> Append(accts, [name |-> name,
                                               client |-> r.conn]),
                   current_account |-> IF current = None THEN name
                                       ELSE current,
                   terminal |-> SessionAfterInitialize(term, r, login),
                   value |-> "True", calls |-> <<"EMT5()">> \o r.calls]

\* remove_account that leaves current_account as it is
remove_account_KeepCurrent(accts, current, term, name) ==
    IF name \notin Keys(accts)
    THEN [accounts |-> accts, current_account |-> current, terminal |-> term,
          value |-> "False", calls |-> <<>>]
    ELSE [accounts |-> Delete(accts, name), current_account |-> current,
          terminal |-> SessionAfterShutdown(term, Lookup(accts, name)),
          value |-> "True", calls |-> ShutdownCalls(Lookup(accts, name))]

\* the body of remove_account (lines 104-119)
remove_account(accts, current, term, name) ==
    IF name \notin Keys(accts)
    THEN [accounts |-> accts, current_account |-> current, terminal |-> term,
          value |-> "False", calls |-> <<>>]
    ELSE LET client == Lookup(accts, name)
             rest == Delete(accts, name)
         IN  [accounts |-> rest,
              current_account |->
                  IF current = name
                  THEN (IF rest = <<>> THEN None ELSE rest[1].name)
                  ELSE current,
              terminal |-> SessionAfterShutdown(term, client),
              value |-> "True", calls |-> ShutdownCalls(client)]

\* the body of switch_account (lines 132-138)
switch_account(accts, current, name) ==
    IF name \notin Keys(accts)
    THEN [current_account |-> current, value |-> "False"]
    ELSE [current_account |-> name, value |-> "True"]

\* the body of get_account (lines 151-154)
get_account(accts, current, name) ==
    LET key == IF name = None THEN current ELSE name IN
    IF key \in Keys(accts)
    THEN [kind |-> "EMT5", name |-> key, client |-> Lookup(accts, key)]
    ELSE NoneValue

\* list(self.accounts.keys())
list_accounts(accts) == [i \in 1..Len(accts) |-> accts[i].name]

----------------------------------------------------------------------------
(* The manager used by the threads of one process *)

\* what the manager actions leave alone
notMgrVars == <<conn, initCall, extArgs, emt5, bld, singletonVars, retryCall>>

\* the account each alias is registered for
LoginOf == [n \in Names |-> IF n = "a" THEN "L1" ELSE "L2"]

\* the calls whose body is a "with self._lock:" block
LockedCalls ==
    {[op |-> "add_account", name |-> n, auto_connect |-> ac] :
        n \in Names, ac \in BOOLEAN} \cup
    {[op |-> o, name |-> n, auto_connect |-> FALSE] :
        o \in {"remove_account", "switch_account"}, n \in Names} \cup
    {[op |-> "get_account", name |-> n, auto_connect |-> FALSE] :
        n \in Names \cup {None}} \cup
    {[op |-> "list_accounts", name |-> None, auto_connect |-> FALSE]}

\* the calls that iterate self.accounts.items() with no "with" block
IteratingOps == {"execute_on_all", "shutdown_all"}

\* iter(self.accounts.items()): the dict iterator remembers the size of the
\* dict it was created on
NewIterator(op, accts) ==
    [op |-> op, pos |-> 1, used |-> Len(accts), changed |-> FALSE,
     results |-> <<>>, calls |-> <<>>]

\* next() of a dict iterator raises RuntimeError when the size differs from
\* the remembered one; after an insertion or deletion that restored the size
\* the language guarantees nothing about what it yields
IterOutcomes(f, accts) ==
    IF Len(accts) # f.used
    THEN {[kind |-> "RuntimeError", index |-> 0]}
    ELSE IF ~f.changed
    THEN (IF f.pos <= Len(accts)
          THEN {[kind |-> "item", index |-> f.pos]}
          ELSE {[kind |-> "StopIteration", index |-> 0]})
    ELSE {[kind |-> "RuntimeError", index |-> 0],
          [kind |-> "StopIteration", index |-> 0]} \cup
         (IF f.pos <= Len(accts)
          THEN {[kind |-> "item", index |-> i] : i \in 1..Len(accts)}
          ELSE {})

\* thread t leaves its method; an insertion or deletion is seen by the
\* iterators the other threads hold
Leave(t, tableChanged) ==
    pc' = [u \in Threads |->
             IF u = t THEN Idle
             ELSE IF tableChanged /\ pc[u].op \in IteratingOps
             THEN [pc[u] EXCEPT !.changed = TRUE]
             ELSE pc[u]]

\* a manager method has returned or raised
MgrFinish(op, name, outcome, value, calls, obj) ==
    /\ lastCall' = [op |-> op, outcome |-> outcome, value |-> value,
                    args |-> <<name>>]
    /\ extCalls' = calls
    /\ retval' = obj
    /\ UNCHANGED notMgrVars

\* "with self._lock:" is entered: the thread blocks until the lock is free
AcquireLock(t, call) ==
    /\ pc[t] = Idle
    /\ lock = None
    /\ lock' = t
    /\ pc' = [pc EXCEPT ![t] = call]
    /\ UNCHANGED <<accounts, current_account, terminal, lastCall, extCalls,
                   retval, notMgrVars>>

AddAccount(t) ==
    /\ pc[t].op = "add_account"
    /\ \E env \in InitEnvs :
         LET r == add_account(accounts, current_account, terminal,
                              pc[t].name, LoginOf[pc[t].name], "S1",
                              pc[t].auto_connect, env)
         IN  /\ accounts' = r.accounts
             /\ current_account' = r.current_account
             /\ terminal' = r.terminal
             /\ Leave(t, r.accounts # accounts)
             /\ MgrFinish("add_account", pc[t].name, "return", r.value,
                          r.calls, NoneValue)
    /\ lock' = None

RemoveAccount(t) ==
    /\ pc[t].op = "remove_account"
    /\ LET r == remove_account(accounts, current_account, terminal,
                               pc[t].name)
       IN  /\ accounts' = r.accounts
           /\ current_account' = r.current_account
           /\ terminal' = r.terminal
           /\ Leave(t, r.accounts # accounts)
           /\ MgrFinish("remove_account", pc[t].name, "return", r.value,
                        r.calls, NoneValue)
    /\ lock' = None

SwitchAccount(t) ==
    /\ pc[t].op = "switch_account"
    /\ LET r == switch_account(accounts, current_account, pc[t].name)
       IN  /\ current_account' = r.current_account
           /\ MgrFinish("switch_account", pc[t].name, "return", r.value,
                        <<>>, NoneValue)
    /\ Leave(t, FALSE)
    /\ lock' = None
    /\ UNCHANGED <<accounts, terminal>>

GetAccount(t) ==
    /\ pc[t].op = "get_account"
    /\ LET r == get_account(accounts, current_account, pc[t].name)
       IN  MgrFinish("get_account", pc[t].name, "return", r.kind, <<>>, r)
    /\ Leave(t, FALSE)
    /\ lock' = None
    /\ UNCHANGED <<accounts, current_account, terminal>>

ListAccounts(t) ==
    /\ pc[t].op = "list_accounts"
    /\ MgrFinish("list_accounts", None, "return", "list", <<>>,
                 [kind |-> "list", items |-> list_accounts(accounts)])
    /\ Leave(t, FALSE)
    /\ lock' = None
    /\ UNCHANGED <<accounts, current_account, terminal>>

\* results[name] = value
Put(results, name, value) ==
    IF \E i \in 1..Len(results) : results[i].name = name
    THEN [i \in 1..Len(results) |->
            IF results[i].name = name
            THEN [name |-> name, value |-> value] ELSE results[i]]
    ELSE Append(results, [name |-> name, value |-> value])

\* one pass of the loop body of execute_on_all("is_connected") (lines 184-193)
ExecuteOnItem(f, entry) ==
    [f EXCEPT !.pos = f.pos + 1,
              !.results = Put(f.results, entry.name,
                              IF ~is_connected(entry.client)
                              THEN "error" ELSE "True")]

\* execute_on_all: results = {} and the iterator of the for statement
ExecuteOnAll(t) ==
    /\ pc[t] = Idle
    /\ pc' = [pc EXCEPT ![t] = NewIterator("execute_on_all", accounts)]
    /\ UNCHANGED <<accounts, current_account, lock, terminal, lastCall,
                   extCalls, retval, notMgrVars>>

\* execute_on_all: the for statement asks for the next item
ExecuteOnAllNext(t) ==
    /\ pc[t].op = "execute_on_all"
    /\ \E o \in IterOutcomes(pc[t], accounts) :
         CASE o.kind = "item" ->
                /\ pc' = [pc EXCEPT
                            ![t] = ExecuteOnItem(pc[t], accounts[o.index])]
                /\ UNCHANGED <<lastCall, extCalls, retval, notMgrVars>>
           [] o.kind = "StopIteration" ->
                /\ Leave(t, FALSE)
                /\ MgrFinish("execute_on_all", None, "return", "dict",
                             pc[t].calls,
                             [kind |-> "dict", items |-> pc[t].results])
           [] o.kind = "RuntimeError" ->
                /\ Leave(t, FALSE)
                /\ MgrFinish("execute_on_all", None, "raise", "RuntimeError",
                             pc[t].calls, NoneValue)
    /\ UNCHANGED <<accounts, current_account, lock, terminal>>

\* shutdown_all: the iterator of the for statement
ShutdownAll(t) ==
    /\ pc[t] = Idle
    /\ pc' = [pc EXCEPT ![t] = NewIterator("shutdown_all", accounts)]
    /\ UNCHANGED <<accounts, current_account, lock, terminal, lastCall,
                   extCalls, retval, notMgrVars>>

\* shutdown_all: the for statement asks for the next item (lines 199-202)
ShutdownAllNext(t) ==
    /\ pc[t].op = "shutdown_all"
    /\ \E o \in IterOutcomes(pc[t], accounts) :
         CASE o.kind = "item" ->
                LET client == accounts[o.index].client IN
                /\ accounts' = [accounts EXCEPT
                                  ![o.index].client = ShutdownConn(client)]
                /\ terminal' = SessionAfterShutdown(terminal, client)
                /\ pc' = [pc EXCEPT
                            ![t] = [pc[t] EXCEPT
                                      !.pos = pc[t].pos + 1,
                                      !.calls = pc[t].calls \o
                                                ShutdownCalls(client)]]
                /\ UNCHANGED <<lastCall, extCalls, retval, notMgrVars>>
           [] o.kind = "StopIteration" ->
                /\ Leave(t, FALSE)
                /\ MgrFinish("shutdown_all", None, "return", "None",
                             pc[t].calls, NoneValue)
                /\ UNCHANGED <<accounts, terminal>>
           [] o.kind = "RuntimeError" ->
                /\ Leave(t, FALSE)
                /\ MgrFinish("shutdown_all", None, "raise", "RuntimeError",
                             pc[t].calls, NoneValue)
                /\ UNCHANGED <<accounts, terminal>>
    /\ UNCHANGED <<current_account, lock>>

InitMgr ==
    /\ conn = NewConnection
    /\ initCall = NoCall
    /\ lastCall = [op |-> "__init__", outcome |-> "return", value |-> "None",
                   args |-> <<None>>]
    /\ extCalls = <<>>
    /\ extArgs = <<>>
    /\ retval = NoneValue
    /\ emt5 = NewEMT5(0, FALSE)
    /\ bld = NoBuilder
    /\ NewManager
    /\ retryCall = NoRetryCall

NextMgr ==
    \E t \in Threads :
        \/ \E call \in LockedCalls : AcquireLock(t, call)
        \/ AddAccount(t)
        \/ RemoveAccount(t)
        \/ SwitchAccount(t)
        \/ GetAccount(t)
        \/ ListAccounts(t)
        \/ ExecuteOnAll(t)
        \/ ExecuteOnAllNext(t)
        \/ ShutdownAll(t)
        \/ ShutdownAllNext(t)

SpecMgr == InitMgr /\ [][NextMgr]_vars

----------------------------------------------------------------------------
(* Claims about the manager *)

\* C5: every thread inside a manager method that reads, writes or iterates
\* self.accounts holds self._lock for as long as it is inside
C5_TableAccessUnderLock ==
    \A t \in Threads :
        pc[t].op \in IteratingOps \cup {c.op : c \in LockedCalls} => lock = t

\* C6: every client of the table that reports is_connected() True has an
\* open terminal session behind it
C6_ConnectedImpliesSessionOpen ==
    \A i \in 1..Len(accounts) :
        is_connected(accounts[i].client) => terminal.open

\* C7: add_account returns True exactly when the alias is new and either
\* auto_connect is False or the external initialize succeeded; when it
\* returns False the table and current_account are as before; for a
\* duplicate alias no client is constructed and no connection is attempted
C7_AddAccountResult ==
    [][\A t \in Threads :
         (pc[t].op = "add_account" /\ pc'[t] = Idle) =>
            LET dup == pc[t].name \in Keys(accounts)
                succeeded == Count(extCalls', {"initialize:True"}) > 0
            IN  /\ lastCall'.op = "add_account"
                /\ lastCall'.outcome = "return"
                /\ lastCall'.value \in {"True", "False"}
                /\ lastCall'.value = "True"
                     <=> (~dup /\ (~pc[t].auto_connect \/ succeeded))
                /\ lastCall'.value = "False"
                     => /\ accounts' = accounts
                        /\ current_account' = current_account
                /\ dup => extCalls' = <<>>]_vars

\* add_account has refused an alias after a failed connection attempt, with
\* another account already in the table
C7_Witness ==
    /\ lastCall.op = "add_account"
    /\ lastCall.value = "False"
    /\ Count(extCalls, InitializeEntries) > 0
    /\ Count(extCalls, {"initialize:True"}) = 0
    /\ Len(accounts) = 1
    /\ current_account # None

\* accts without its i-th item, the others in their order
WithoutItem(accts, i) ==
    [k \in 1..(Len(accts) - 1) |-> IF k < i THEN accts[k] ELSE accts[k + 1]]

----------------------------------------------------------------------------
(* MT5AccountManager() called by the threads of a process that has not
   constructed the manager yet (account_manager.py lines 23-38).  A thread
   can be rescheduled between any two statements; a frame holds the line the
   thread is about to execute and its local self. *)

\* what the constructor actions leave alone
notSingletonVars ==
    <<conn, initCall, extCalls, extArgs, retval, emt5, bld, accounts,
      current_account, lock, terminal, retryCall>>

At(line, self) == [op |-> "MT5AccountManager()", line |-> line, self |-> self]

\* the thread has the manager the constructor returned in a local variable
Holds(self) == [op |-> "holds", line |-> 0, self |-> self]

Goto(t, frame) == pc' = [pc EXCEPT ![t] = frame]

ConstructorDone(t, outcome, value) ==
    /\ lastCall' = [op |-> "MT5AccountManager()", outcome |-> outcome,
                    value |-> value, args |-> <<t>>]
    /\ UNCHANGED notSingletonVars

ConstructorStep == UNCHANGED <<lastCall, notSingletonVars>>

\* a thread calls MT5AccountManager(), dropping the reference it may hold
Construct(t) ==
    /\ pc[t].op \in {"idle", "holds"}
    /\ Goto(t, At(26, NoObject))
    /\ UNCHANGED singletonVars
    /\ ConstructorStep

\* line 26: if cls._instance is None
NewTest(t) ==
    /\ pc[t] = At(26, NoObject)
    /\ Goto(t, At(IF _instance = NoObject THEN 27 ELSE 29, NoObject))
    /\ UNCHANGED singletonVars
    /\ ConstructorStep

\* line 27: cls._instance = super().__new__(cls)
NewCreate(t) ==
    /\ pc[t] = At(27, NoObject)
    /\ instances' = Append(instances, NewObject)
    /\ _instance' = Ref(Len(instances) + 1)
    /\ Goto(t, At(28, NoObject))
    /\ ConstructorStep

\* line 28: cls._instance._initialized = False
NewMark(t) ==
    /\ pc[t] = At(28, NoObject)
    /\ instances' = [instances EXCEPT ![_instance[1]]._initialized = "False"]
    /\ Goto(t, At(29, NoObject))
    /\ UNCHANGED _instance
    /\ ConstructorStep

\* line 29: return cls._instance, and __init__ is entered with it as self
NewReturn(t) ==
    /\ pc[t] = At(29, NoObject)
    /\ Goto(t, At(32, _instance))
    /\ UNCHANGED singletonVars
    /\ ConstructorStep

\* lines 32-33: if self._initialized: return
InitTest(t) ==
    /\ pc[t].op = "MT5AccountManager()" /\ pc[t].line = 32
    /\ LET flag == instances[pc[t].self[1]]._initialized IN
       CASE flag = "unset" ->
              /\ Goto(t, Idle)
              /\ ConstructorDone(t, "raise", "AttributeError")
         [] flag = "True" ->
              /\ Goto(t, Holds(pc[t].self))
              /\ ConstructorDone(t, "return", "MT5AccountManager")
         [] flag = "False" ->
              /\ Goto(t, At(35, pc[t].self))
              /\ ConstructorStep
    /\ UNCHANGED singletonVars

\* lines 35-37: self.accounts = {}, self.current_account = None, self._lock
InitFields(t) ==
    /\ pc[t].op = "MT5AccountManager()" /\ pc[t].line = 35
    /\ LET i == pc[t].self[1]
           o == instances[i] IN
       instances' = [instances EXCEPT
                       ![i] = [o EXCEPT !.hasFields = TRUE,
                                        !.accounts = <<>>,
                                        !.current_account = None,
                                        !.inits = o.inits + 1,
                                        !.lost = o.lost \/ o.accounts # <<>>]]
    /\ Goto(t, At(38, pc[t].self))
    /\ UNCHANGED _instance
    /\ ConstructorStep

\* line 38: self._initialized = True
InitMark(t) ==
    /\ pc[t].op = "MT5AccountManager()" /\ pc[t].line = 38
    /\ instances' = [instances EXCEPT ![pc[t].self[1]]._initialized = "True"]
    /\ Goto(t, Holds(pc[t].self))
    /\ UNCHANGED _instance
    /\ ConstructorDone(t, "return", "MT5AccountManager")

\* add_account(name, ..., auto_connect=False) on the manager the thread holds
AddToHeld(t, name) ==
    /\ pc[t].op = "holds"
    /\ LET i == pc[t].self[1]
           o == instances[i]
           r == add_account([k \in 1..Len(o.accounts) |->
                               [name |-> o.accounts[k],
                                client |-> NewConnection]],
                            o.current_account, terminal, name, LoginOf[name],
                            "S1", FALSE, CHOOSE e \in InitEnvs : TRUE) IN
       /\ o.hasFields
       /\ instances' = [instances EXCEPT
                          ![i].accounts = list_accounts(r.accounts),
                          ![i].current_account = r.current_account]
       /\ lastCall' = [op |-> "add_account", outcome |-> "return",
                       value |-> r.value, args |-> <<t>>]
    /\ UNCHANGED <<_instance, pc, notSingletonVars>>

InitSingleton ==
    /\ conn = NewConnection
    /\ initCall = NoCall
    /\ lastCall = [op |-> "import", outcome |-> "return", value |-> "None",
                   args |-> <<None>>]
    /\ extCalls = <<>>
    /\ extArgs = <<>>
    /\ retval = NoneValue
    /\ emt5 = NewEMT5(0, FALSE)
    /\ bld = NoBuilder
    /\ accounts = <<>>
    /\ current_account = None
    /\ lock = None
    /\ pc = [t \in Threads |-> Idle]
    /\ terminal = NoSession
    /\ _instance = NoObject
    /\ instances = <<>>
    /\ retryCall = NoRetryCall

NextSingleton ==
    \E t \in Threads :
        \/ Construct(t)
        \/ NewTest(t)
        \/ NewCreate(t)
        \/ NewMark(t)
        \/ NewReturn(t)
        \/ InitTest(t)
        \/ InitFields(t)
        \/ InitMark(t)
        \/ \E name \in Names : AddToHeld(t, name)

SpecSingleton == InitSingleton /\ [][NextSingleton]_vars

\* C13: at most one MT5AccountManager object is ever created, its fields are
\* initialized exactly once, and no constructor call replaces a table that
\* holds accounts
C13_SingletonUnderConcurrency ==
    /\ Len(instances) <= 1
    /\ \A i \in 1..Len(instances) :
         /\ instances[i].inits <= 1
         /\ ~instances[i].lost

----------------------------------------------------------------------------
(* retry(max_attempts, delay, exceptions) (core/decorators.py lines 44-94;
   ExceptionHandler.retry in exceptions.py lines 117-168 is the same code).
   The wrapped function is the environment: each call of it returns or raises
   one of the exceptions of Raisable.  extCalls logs the calls of the wrapped
   function and of time.sleep, extArgs their arguments and outcomes. *)

MaxAttempts == 3

Raisable == {"ValueError", "OSError"}

\* the exceptions argument: Exception (the default) or one class
ExceptionsArgs == {Raisable, {"ValueError"}}

Delays == {1, 2}

\* what the retry actions leave alone
notRetryVars ==
    <<conn, initCall, retval, emt5, bld, mgrVars, singletonVars>>

Called(fn, request, answer) ==
    [fn |-> fn, request |-> request, answer |-> answer]

\* the loop body, sleeping after every failure
RetryAttemptBody_AlwaysSleeps(f, outcome) ==
    IF outcome = "return"
    THEN [frame |-> [f EXCEPT !.active = FALSE],
          done |-> TRUE, result |-> "return", value |-> "result",
          calls |-> <<"func:return">>,
          args |-> <<Called("func", f.attempt, outcome)>>]
    ELSE IF outcome \in f.exceptions
    THEN [frame |-> [f EXCEPT !.attempt = f.attempt + 1,
                              !.last_exception = outcome],
          done |-> FALSE, result |-> "raise", value |-> outcome,
          calls |-> <<"func:raise", "sleep">>,
          args |-> <<Called("func", f.attempt, outcome),
                     Called("sleep", f.delay, None)>>]
    ELSE [frame |-> [f EXCEPT !.active = FALSE],
          done |-> TRUE, result |-> "raise", value |-> outcome,
          calls |-> <<"func:propagate">>,
          args |-> <<Called("func", f.attempt, outcome)>>]

\* one pass of `for attempt in range(1, max_attempts + 1)` (lines 72-88)
\* with the wrapped function ending in outcome
RetryAttemptBody(f, outcome) ==
    IF outcome = "return"
    THEN [frame |-> [f EXCEPT !.active = FALSE],
          done |-> TRUE, result |-> "return", value |-> "result",
          calls |-> <<"func:return">>,
          args |-> <<Called("func", f.attempt, outcome)>>]
    ELSE IF outcome \in f.exceptions
    THEN [frame |-> [f EXCEPT !.attempt = f.attempt + 1,
                              !.last_exception = outcome],
          done |-> FALSE, result |-> "raise", value |-> outcome,
          calls |-> <<"func:raise">> \o
                    (IF f.attempt < f.max_attempts THEN <<"sleep">> ELSE <<>>),
          args |-> <<Called("func", f.attempt, outcome)>> \o
                   (IF f.attempt < f.max_attempts
                    THEN <<Called("sleep", f.delay, None)>> ELSE <<>>)]
    ELSE [frame |-> [f EXCEPT !.active = FALSE],
          done |-> TRUE, result |-> "raise", value |-> outcome,
          calls |-> <<"func:propagate">>,
          args |-> <<Called("func", f.attempt, outcome)>>]

\* the wrapper is called: last_exception = None and the loop starts
RetryCall(max_attempts, delay, exceptions) ==
    /\ ~retryCall.active
    /\ retryCall' = [active |-> TRUE, max_attempts |-> max_attempts,
                     delay |-> delay, exceptions |-> exceptions,
                     attempt |-> 1, last_exception |-> None]
    /\ extCalls' = <<>>
    /\ extArgs' = <<>>
    /\ UNCHANGED <<lastCall, notRetryVars>>

\* one pass through the loop body
RetryAttempt ==
    /\ retryCall.active
    /\ retryCall.attempt <= retryCall.max_attempts
    /\ \E outcome \in {"return"} \cup Raisable :
         LET r == RetryAttemptBody(retryCall, outcome) IN
         /\ retryCall' = r.frame
         /\ extCalls' = extCalls \o r.calls
         /\ extArgs' = extArgs \o r.args
         /\ lastCall' = IF r.done
                        THEN [op |-> "wrapper", outcome |-> r.result,
                              value |-> r.value, args |-> <<>>]
                        ELSE lastCall
    /\ UNCHANGED notRetryVars

\* line 90: raise last_exception (raising None is a TypeError)
RetryRaise ==
    /\ retryCall.active
    /\ retryCall.attempt > retryCall.max_attempts
    /\ retryCall' = [retryCall EXCEPT !.active = FALSE]
    /\ lastCall' = [op |-> "wrapper", outcome |-> "raise",
                    value |-> IF retryCall.last_exception = None
                              THEN "TypeError"
                              ELSE retryCall.last_exception,
                    args |-> <<>>]
    /\ UNCHANGED <<extCalls, extArgs, notRetryVars>>

InitRetry ==
    /\ conn = NewConnection
    /\ initCall = NoCall
    /\ lastCall = [op |-> "retry", outcome |-> "return", value |-> "wrapper",
                   args |-> <<>>]
    /\ extCalls = <<>>
    /\ extArgs = <<>>
    /\ retval = NoneValue
    /\ emt5 = NewEMT5(0, FALSE)
    /\ bld = NoBuilder
    /\ NewManager
    /\ retryCall = NoRetryCall

NextRetry ==
    \/ \E n \in 0..MaxAttempts, d \in Delays, e \in ExceptionsArgs :
         RetryCall(n, d, e)
    \/ RetryAttempt
    \/ RetryRaise

SpecRetry == InitRetry /\ [][NextRetry]_vars

FuncEntries == {"func:return", "func:raise", "func:propagate"}

\* the log of one call of the wrapper, for max_attempts >= 1
RetryLogOK ==
    (retryCall.max_attempts >= 1 /\ (retryCall.active \/ lastCall.op = "wrapper")) =>
        LET n == retryCall.max_attempts
            len == Len(extCalls) IN
        /\ Count(extCalls, FuncEntries) <= n
        /\ Count(extCalls, {"sleep"}) <= n - 1
        /\ \A i \in 1..len :
             /\ extCalls[i] = "sleep" =>
                   /\ i > 1 /\ extCalls[i - 1] = "func:raise"
                   /\ extArgs[i].request = retryCall.delay
             /\ (extCalls[i] = "func:raise" /\ i < len) =>
                   extCalls[i + 1] = "sleep"
             /\ (extCalls[i] = "func:raise" /\ i = len) =>
                   Count(extCalls, FuncEntries) = n
             /\ extCalls[i] = "func:raise" =>
                   extArgs[i].answer \in retryCall.exceptions
             /\ extCalls[i] \in {"func:return", "func:propagate"} =>
                   (i = len /\ ~retryCall.active)
        /\ ~retryCall.active =>
             /\ len > 0
             /\ extCalls[len] \in FuncEntries
             /\ extCalls[len] = "func:return" =>
                   (lastCall.outcome = "return" /\ lastCall.value = "result")
             /\ extCalls[len] = "func:propagate" =>
                   /\ lastCall.outcome = "raise"
                   /\ lastCall.value = extArgs[len].answer
                   /\ extArgs[len].answer \notin retryCall.exceptions
             /\ extCalls[len] = "func:raise" =>
                   /\ lastCall.outcome = "raise"
                   /\ lastCall.value = extArgs[len].answer

\* C18: a function wrapped with retry(max_attempts=n, delay=d), n >= 1, is
\* called at most n times; the wrapper returns the result of the first call
\* that succeeds, sleeps d between consecutive failed attempts and never
\* after the last one, re-raises the last exception after n matching
\* failures, and lets a non-matching exception propagate at once
C18_RetryBounded == RetryLogOK

\* three matching failures, two sleeps, and the exception of the third call
\* re-raised, which is not the exception of the first call
C18_Witness ==
    /\ ~retryCall.active
    /\ lastCall.op = "wrapper"
    /\ lastCall.outcome = "raise"
    /\ retryCall.max_attempts = 3
    /\ Count(extCalls, {"func:raise"}) = 3
    /\ Count(extCalls, {"sleep"}) = 2
    /\ extArgs[1].answer # lastCall.value

====
